---------------------------- MODULE Spec2Model ----------------------------
(***************************************************************************)
(* Model of ci_scripts/check_installability_plugins.py: the script that    *)
(* asks the plugin hub for the plugins, builds one solver task per plugin  *)
(* (or one task for all of them with --all), runs the solver on each task  *)
(* and turns the failures it finds into the exit code.                     *)
(*                                                                         *)
(* Python strings are sequences of one-character strings, so that          *)
(* str.lower, str.replace, str.split and slicing are computed.  A Python   *)
(* value that may be None is <<>> (None) or <<x>> (the value x).           *)
(***************************************************************************)
EXTENDS Integers, Sequences, FiniteSets, TLC

\* ---------------------------------------------------------------- bounds

\* Most entries the hub's plugin mapping holds.
MaxPlugins == 2
\* Most packages in the LINK list of one solution.
MaxLink == 2

\* ------------------------------------------------------- strings of the run

None == <<>>
Some(x) == <<x>>

napari == <<"n", "a", "p", "a", "r", "i">>
pyqt == <<"p", "y", "q", "t">>
pyqtgraph == <<"p", "y", "q", "t", "g", "r", "a", "p", "h">>

\* Names the registry and the solver answer with.
foo == <<"f", "o", "o">>
Bar == <<"B", "a", "r">>
baz == <<"b", "a", "z">>
qux == <<"q", "u", "x">>
PyQt == <<"P", "y", "Q", "t">>
Channel == <<"c", "f">>

\* Version strings: the registry's latest version is 10 and the solver picks
\* 9 or 10, which compare differently as versions and as strings.
Old == <<"9">>
Latest == <<"1", "0">>
RegistryVersions == {Latest}

\* sys.exit hands the status to the operating system, which keeps 8 bits.
ExitModulus == 256

\* Lengths of the solver_problems list of a failed solve.
ProblemCounts == {0, 1, ExitModulus}

UpperChars == <<"A", "B", "C", "D", "E", "F", "G", "H", "I", "J", "K", "L", "M",
                "N", "O", "P", "Q", "R", "S", "T", "U", "V", "W", "X", "Y", "Z">>
LowerChars == <<"a", "b", "c", "d", "e", "f", "g", "h", "i", "j", "k", "l", "m",
                "n", "o", "p", "q", "r", "s", "t", "u", "v", "w", "x", "y", "z">>
DigitChars == <<"0", "1", "2", "3", "4", "5", "6", "7", "8", "9">>

\* ------------------------------------------------------- string functions

\* str.lower of one character.
LowerChar(c) ==
    IF \E n \in 1..Len(UpperChars) : UpperChars[n] = c
    THEN LowerChars[CHOOSE n \in 1..Len(UpperChars) : UpperChars[n] = c]
    ELSE c

\* str.lower.
Lower(s) == [n \in 1..Len(s) |-> LowerChar(s[n])]

\* s[:n]
Prefix(s, n) == SubSeq(s, 1, IF Len(s) < n THEN Len(s) ELSE n)

RECURSIVE ReplaceSlash(_)
\* conda_name.replace("/", "::")
ReplaceSlash(s) ==
    IF s = <<>> THEN <<>>
    ELSE (IF Head(s) = "/" THEN <<":", ":">> ELSE <<Head(s)>>) \o ReplaceSlash(Tail(s))

RECURSIVE SplitSlash(_)
\* conda_name.split("/"): the list of the segments between the slashes.
SplitSlash(s) ==
    IF \E n \in 1..Len(s) : s[n] = "/"
    THEN LET n == CHOOSE m \in 1..Len(s) : s[m] = "/" /\ \A j \in 1..(m - 1) : s[j] # "/"
         IN  <<SubSeq(s, 1, n - 1)>> \o SplitSlash(SubSeq(s, n + 1, Len(s)))
    ELSE <<s>>

DigitValue(c) == (CHOOSE n \in 1..Len(DigitChars) : DigitChars[n] = c) - 1

RECURSIVE VersionOrder(_)
\* The order key of a version string made of digits: its number.
VersionOrder(v) ==
    IF v = <<>> THEN 0
    ELSE 10 * VersionOrder(SubSeq(v, 1, Len(v) - 1)) + DigitValue(v[Len(v)])

\* ----------------------------------------------------------- the inputs

CondaName(name) == Channel \o <<"/">> \o name

\* Entries of the hub's mapping: <<PyPI name, conda name or None>>.  Two
\* plugins share one conda package, one conda name has capitals, one plugin
\* has no conda package and one plugin's conda package is named pyqt.
HubEntries ==
    { <<foo, Some(CondaName(foo))>>,
      <<Bar, Some(CondaName(Bar))>>,
      <<baz, Some(CondaName(foo))>>,
      <<qux, None>>,
      <<pyqt, Some(CondaName(pyqt))>> }

\* The mappings the hub answers with: a dict in insertion order, so the keys
\* (the PyPI names) are distinct.
HubMappings ==
    { m \in UNION { [1..n -> HubEntries] : n \in 0..MaxPlugins } :
        \A a, b \in 1..Len(m) : a # b => m[a][1] # m[b][1] }

\* Responses of the registry to a latest-version request.
VersionResponses ==
    { [ok |-> FALSE, latest_version |-> <<>>] }
    \cup { [ok |-> TRUE, latest_version |-> v] : v \in RegistryVersions }

\* Responses of the hub to the request for the plugin mapping.
HubResponses ==
    { [ok |-> FALSE, json |-> <<>>] } \cup { [ok |-> TRUE, json |-> m] : m \in HubMappings }

\* Package names of a solution, in the order the solver lists them.
LinkNames == <<napari, foo, Bar, PyQt, pyqtgraph>>

Package(name, version) == [name |-> name, version |-> version]

\* The packages a solution holds: napari and the plugin foo, old or latest,
\* and packages whose version decides nothing.
Packages ==
    { Package(napari, Old), Package(napari, Latest), Package(foo, Old), Package(foo, Latest),
      Package(Bar, Old), Package(PyQt, Old), Package(pyqtgraph, Old) }

NameIndex(name) == CHOOSE n \in 1..Len(LinkNames) : LinkNames[n] = name

\* LINK lists of a solution: each package once, in the solver's order.
LinkLists ==
    { l \in UNION { [1..n -> Packages] : n \in 0..MaxLink } :
        \A a, b \in 1..Len(l) : a < b => NameIndex(l[a].name) < NameIndex(l[b].name) }

\* A failure message: the solver's problem, a stale version, a version that
\* could not be checked, a pyqt package in the solution.
Message(kind, name, version, latest) ==
    [kind |-> kind, name |-> name, version |-> version, latest |-> latest]

Problem == Message("problem", <<>>, <<>>, <<>>)

\* What the solver prints: text that is no JSON, a solution, or the problems.
SolverOutputs ==
    { [json |-> FALSE, success |-> FALSE, LINK |-> <<>>, solver_problems |-> <<>>] }
    \cup { [json |-> TRUE, success |-> TRUE, LINK |-> l, solver_problems |-> <<>>] :
             l \in LinkLists }
    \cup { [json |-> TRUE, success |-> FALSE, LINK |-> <<>>,
            solver_problems |-> [n \in 1..c |-> Problem]] : c \in ProblemCounts }

\* ------------------------------------------------------------ the state

VARIABLES
    args_all,        \* args.all
    pc,              \* where main is
    napari_latest,   \* lru_cache of _latest_napari_on_conda_forge
    version_cache,   \* lru_cache of _latest_plugin_version
    plugin_names,    \* the hub's mapping, in its order
    k,               \* the entry of plugin_names the preparing loop is at
    names_to_check,
    plugin_specs,
    tasks,
    i,               \* the task the solving loop is at
    failures,        \* dict: task -> list of failure messages
    result,          \* the solver's answer the loop's turn works on
    outcomes,        \* of each task solved: whether it succeeded, the failures it added
    log,             \* requests and solver runs, in the order they returned
    printed,         \* the report of the failures was printed
    exit_code,       \* what main returned
    exit_status,     \* the status the process ended with
    raised           \* the exception that ended the run

vars == <<args_all, pc, napari_latest, version_cache, plugin_names, k, names_to_check,
          plugin_specs, tasks, i, failures, result, outcomes, log, printed, exit_code,
          exit_status, raised>>

python_spec ==
    <<"p", "y", "t", "h", "o", "n", "=", "3", ".", "9", ".", "*", "=", "*",
      "c", "p", "y", "t", "h", "o", "n">>

napari_spec(latest) == napari \o <<"=">> \o latest \o <<"=", "*", "p", "y", "s", "i", "d", "e", "*">>

EmptyDict == [t \in {} |-> <<>>]

Init ==
    /\ args_all \in BOOLEAN
    /\ pc = "napari"
    /\ napari_latest = None
    /\ version_cache = EmptyDict
    /\ plugin_names = <<>>
    /\ k = 1
    /\ names_to_check = {}
    /\ plugin_specs = <<>>
    /\ tasks = <<>>
    /\ i = 1
    /\ failures = EmptyDict
    /\ result = None
    /\ outcomes = <<>>
    /\ log = <<>>
    /\ printed = FALSE
    /\ exit_code = None
    /\ exit_status = None
    /\ raised = None

\* Entries of the log: a registry request and how it ended, a solver run and
\* the arguments it got.
Get(what, name, ok) == [op |-> "GET", what |-> what, name |-> name, args |-> <<>>, ok |-> ok]
Run(args, ok) == [op |-> "run", what |-> "micromamba", name |-> <<>>, args |-> args, ok |-> ok]

\* Mutant of RaiseForStatus: the status of the response is not looked at.
RaiseForStatusNever(r) == FALSE

\* r.raise_for_status() raises for a response that is not a success.
RaiseForStatus(r) == ~r.ok

\* _latest_napari_on_conda_forge, first call: raise_for_status, then the version.
LatestNapari ==
    /\ pc = "napari"
    /\ \E r \in VersionResponses :
         /\ log' = Append(log, Get("napari", napari, r.ok))
         /\ IF ~RaiseForStatus(r)
            THEN /\ napari_latest' = Some(r.latest_version)
                 /\ pc' = "names"
                 /\ raised' = raised
            ELSE /\ napari_latest' = napari_latest
                 /\ pc' = "raised"
                 /\ raised' = Some("HTTPError")
    /\ UNCHANGED <<args_all, version_cache, plugin_names, k, names_to_check, plugin_specs,
                   tasks, i, failures, result, outcomes, printed, exit_code, exit_status>>

\* _all_plugin_names: raise_for_status, then the mapping.
AllPluginNames ==
    /\ pc = "names"
    /\ \E r \in HubResponses :
         /\ log' = Append(log, Get("hub", <<>>, r.ok))
         /\ IF ~RaiseForStatus(r)
            THEN /\ plugin_names' = r.json
                 /\ names_to_check' = {napari}
                 /\ pc' = "prepare"
                 /\ raised' = raised
            ELSE /\ plugin_names' = plugin_names
                 /\ names_to_check' = names_to_check
                 /\ pc' = "raised"
                 /\ raised' = Some("HTTPError")
    /\ UNCHANGED <<args_all, napari_latest, version_cache, k, plugin_specs,
                   tasks, i, failures, result, outcomes, printed, exit_code, exit_status>>

\* `if x:` of a value that is None or a string.
Truthy(x) == x # None /\ x[1] # <<>>

\* What _latest_plugin_version returns for a response: the version, or None.
VersionOf(r) == IF r.ok THEN Some(r.latest_version) ELSE None

\* The responses a step draws from: the registry's when it sends a request.
ResponsesIf(requests) == IF requests THEN VersionResponses ELSE {[ok |-> FALSE, latest_version |-> <<>>]}

\* Mutant of PluginSpec: the latest version is not added.
PluginSpecUnpinned(conda_name, pinned, latest_version) == ReplaceSlash(conda_name)

\* plugin_spec of a plugin with a conda name: channel::name, pinned to the
\* latest version when there is one.
PluginSpec(conda_name, pinned, latest_version) ==
    ReplaceSlash(conda_name)
    \o (IF pinned /\ Truthy(latest_version) THEN <<"=", "=">> \o latest_version[1] ELSE <<>>)

\* One turn of the loop over plugin_names.items().
PrepareStep ==
    /\ pc = "prepare"
    /\ k <= Len(plugin_names)
    /\ LET pypi_name == plugin_names[k][1]
           conda_name == plugin_names[k][2]
           looks == conda_name # None /\ ~args_all
           requests == looks /\ pypi_name \notin DOMAIN version_cache
       IN  \E r \in ResponsesIf(requests) :
             LET latest_version ==
                     IF requests THEN VersionOf(r)
                     ELSE IF looks THEN version_cache[pypi_name] ELSE None
             IN  /\ version_cache' =
                        IF requests THEN version_cache @@ (pypi_name :> latest_version)
                        ELSE version_cache
                 /\ log' = IF requests THEN Append(log, Get("plugin", pypi_name, r.ok)) ELSE log
                 /\ IF conda_name = None
                    THEN UNCHANGED <<plugin_specs, names_to_check, pc, raised>>
                    ELSE /\ plugin_specs' =
                              Append(plugin_specs,
                                     PluginSpec(conda_name[1], ~args_all, latest_version))
                         /\ IF Len(SplitSlash(conda_name[1])) >= 2
                            THEN /\ names_to_check' =
                                      names_to_check \cup {SplitSlash(conda_name[1])[2]}
                                 /\ UNCHANGED <<pc, raised>>
                            ELSE /\ pc' = "raised"
                                 /\ raised' = Some("IndexError")
                                 /\ UNCHANGED names_to_check
    /\ k' = k + 1
    /\ UNCHANGED <<args_all, napari_latest, plugin_names, tasks, i, failures, result,
                   outcomes, printed, exit_code, exit_status>>

\* The task list of a run.
TaskList(all, latest, specs) ==
    IF all
    THEN << <<python_spec, napari_spec(latest)>> \o specs >>
    ELSE [n \in 1..(Len(specs) + 1) |->
            <<python_spec, napari_spec(latest), (<<<<>>>> \o specs)[n]>>]

\* The end of the preparing loop: the task list.
BuildTasks ==
    /\ pc = "prepare"
    /\ k > Len(plugin_names)
    /\ tasks' = TaskList(args_all, napari_latest[1], plugin_specs)
    /\ failures' = EmptyDict
    /\ i' = 1
    /\ pc' = "solve"
    /\ UNCHANGED <<args_all, napari_latest, version_cache, plugin_names, k, names_to_check,
                   plugin_specs, result, outcomes, log, printed, exit_code, exit_status,
                   raised>>

\* The arguments _solve hands the solver: the truthy ones.
SolveArgs(task) == SelectSeq(task, LAMBDA arg : arg # <<>>)

\* _check_if_latest, given the latest version it looked up.
check_if_latest(pkg, latest_v) ==
    IF Truthy(latest_v)
    THEN IF VersionOrder(pkg.version) < VersionOrder(latest_v[1])
         THEN <<Message("stale", pkg.name, pkg.version, latest_v[1])>>
         ELSE <<>>
    ELSE <<Message("nocheck", pkg.name, pkg.version, <<>>)>>

\* The first branch of the loop over LINK: the package is one to check.
IsChecked(pkg, all, names) == all /\ Lower(pkg.name) \in names

\* The second branch: a pyqt package that is not pyqtgraph.
IsPyQt(pkg) == Prefix(Lower(pkg.name), 4) = pyqt /\ Lower(pkg.name) # pyqtgraph

\* The failures one package of LINK adds; latest_of holds what the version
\* lookups return.
PackageFailures(pkg, all, names, latest_of) ==
    IF IsChecked(pkg, all, names)
    THEN check_if_latest(pkg, latest_of[pkg.name])
    ELSE IF IsPyQt(pkg)
         THEN <<Message("pyqt", pkg.name, pkg.version, <<>>)>>
         ELSE <<>>

RECURSIVE LinkFailures(_, _, _, _)
\* The failures the loop over LINK adds, in its order.
LinkFailures(link, all, names, latest_of) ==
    IF link = <<>> THEN <<>>
    ELSE PackageFailures(Head(link), all, names, latest_of)
         \o LinkFailures(Tail(link), all, names, latest_of)

\* The names the loop over LINK calls _latest_plugin_version with.
LookedUp(link, all, names) ==
    { link[n].name : n \in { m \in 1..Len(link) :
                               IsChecked(link[m], all, names) /\ link[m].name # napari } }

RECURSIVE LookupLog(_, _, _, _, _)
\* The requests the loop over LINK sends: one for each name not yet cached.
LookupLog(link, all, names, cached, resp) ==
    IF link = <<>> THEN <<>>
    ELSE LET name == Head(link).name
             sends == name \in LookedUp(<<Head(link)>>, all, names) /\ name \notin cached
         IN  (IF sends THEN <<Get("plugin", name, resp[name].ok)>> ELSE <<>>)
             \o LookupLog(Tail(link), all, names, cached \cup {name}, resp)

\* failures[task].extend(messages) of the defaultdict: the key is made.
Extend(dict, task, messages) ==
    IF task \in DOMAIN dict
    THEN [dict EXCEPT ![task] = @ \o messages]
    ELSE dict @@ (task :> messages)

\* Mutant of JsonLoadsRaises: the error of json.loads is swallowed.
JsonLoadsNeverRaises(output) == FALSE

\* json.loads(resp.stdout) raises for output that is no JSON.
JsonLoadsRaises(output) == ~output.json

\* Mutant of NewFailures: failures[task] is extended also by no failure.
NewFailuresAlwaysExtends(dict, task, success, added) == Extend(dict, task, added)

\* The failures dict after a turn that found the messages added: a solve that
\* did not succeed extends failures[task] whatever the problems, a solution
\* touches it only when it has a failure.
NewFailures(dict, task, success, added) ==
    IF success /\ added = <<>> THEN dict ELSE Extend(dict, task, added)

\* Mutant of NextTask: the loop skips a task.
NextTaskSkips(n) == n + 2

\* The loop over the tasks goes to the next one.
NextTask(n) == n + 1

\* _solve(*task): the solver runs on the task's arguments and its output is
\* parsed; output that is no JSON raises.
RunSolver ==
    /\ pc = "solve"
    /\ i <= Len(tasks)
    /\ \E output \in SolverOutputs :
         /\ log' = Append(log, Run(SolveArgs(tasks[i]), output.json))
         /\ IF ~JsonLoadsRaises(output)
            THEN /\ result' = Some(output)
                 /\ pc' = "interpret"
                 /\ UNCHANGED raised
            ELSE /\ pc' = "raised"
                 /\ raised' = Some("JSONDecodeError")
                 /\ UNCHANGED result
    /\ UNCHANGED <<args_all, napari_latest, version_cache, plugin_names, k, names_to_check,
                   plugin_specs, tasks, i, failures, outcomes, printed, exit_code,
                   exit_status>>

\* The rest of the turn: the failures the result shows go to failures[task].
Interpret ==
    /\ pc = "interpret"
    /\ LET task == tasks[i]
           link == result[1].LINK
           new == LookedUp(link, args_all, names_to_check) \ DOMAIN version_cache
       IN  \E resp \in [new -> VersionResponses] :
             LET cache == version_cache @@ [n \in new |-> VersionOf(resp[n])]
                 latest_of == cache @@ (napari :> napari_latest)
                 added == IF result[1].success
                          THEN LinkFailures(link, args_all, names_to_check, latest_of)
                          ELSE result[1].solver_problems
             IN  /\ log' = log \o LookupLog(link, args_all, names_to_check,
                                            DOMAIN version_cache, resp)
                 /\ version_cache' = cache
                 /\ failures' = NewFailures(failures, task, result[1].success, added)
                 /\ outcomes' = Append(outcomes, [success |-> result[1].success,
                                                  added |-> added])
    /\ i' = NextTask(i)
    /\ result' = None
    /\ pc' = "solve"
    /\ UNCHANGED <<args_all, napari_latest, plugin_names, k, names_to_check, plugin_specs,
                   tasks, printed, exit_code, exit_status, raised>>

RECURSIVE SumOfLengths(_, _)
\* sum(len(problems) for problems in failures.values())
SumOfLengths(dict, keys) ==
    IF keys = {} THEN 0
    ELSE LET t == CHOOSE x \in keys : TRUE
         IN  Len(dict[t]) + SumOfLengths(dict, keys \ {t})

\* Mutant of ReturnValue: the number of failed tasks in both modes.
ReturnValueCountsTasks(all, dict) == Cardinality(DOMAIN dict)

\* What main returns.
ReturnValue(all, dict) ==
    IF all THEN SumOfLengths(dict, DOMAIN dict) ELSE Cardinality(DOMAIN dict)

\* The end of the loop over the tasks: the report, and main returns.
Report ==
    /\ pc = "solve"
    /\ i > Len(tasks)
    /\ printed' = TRUE
    /\ exit_code' = Some(ReturnValue(args_all, failures))
    /\ pc' = "returned"
    /\ UNCHANGED <<args_all, napari_latest, version_cache, plugin_names, k, names_to_check,
                   plugin_specs, tasks, i, failures, result, outcomes, log, exit_status,
                   raised>>

\* The status of a process that ends with sys.exit(code).
ExitStatus(code) == code % ExitModulus

\* sys.exit(main())
Exit ==
    /\ pc = "returned"
    /\ exit_status' = Some(ExitStatus(exit_code[1]))
    /\ pc' = "exited"
    /\ UNCHANGED <<args_all, napari_latest, version_cache, plugin_names, k, names_to_check,
                   plugin_specs, tasks, i, failures, result, outcomes, log, printed,
                   exit_code, raised>>

Next ==
    \/ LatestNapari
    \/ AllPluginNames
    \/ PrepareStep
    \/ BuildTasks
    \/ RunSolver
    \/ Interpret
    \/ Report
    \/ Exit

Spec == Init /\ [][Next]_vars

\* ------------------------------------------------------------ the claims

\* main has returned.
Returned == exit_code # None

\* The solver runs of the log, in their order.
Runs == SelectSeq(log, LAMBDA e : e.op = "run")

\* The messages of a list whose kind is one of kinds.
OfKind(messages, kinds) == SelectSeq(messages, LAMBDA m : m.kind \in kinds)

\* The messages a dict of failures holds for a task.
FailuresOf(dict, task) == IF task \in DOMAIN dict THEN dict[task] ELSE <<>>

\* Task n failed: its solve did not succeed, or its solution added a failure.
TaskFailed(n) == ~outcomes[n].success \/ outcomes[n].added # <<>>

FailedTasks == { n \in 1..Len(outcomes) : TaskFailed(n) }

\* C1: in per-task mode the exit code main returns is the number of tasks of
\* the task list that failed, also when two plugins give the same
\* specification string.
C1_PerTaskExitCodeIsFailedTaskCount ==
    (Returned /\ ~args_all) => exit_code[1] = Cardinality(FailedTasks)

\* C2: in aggregate mode the exit code main returns is the number of problems
\* of the single task: the solver_problems of a solve that did not succeed,
\* else the stale-version and could-not-check messages plus the pyqt messages.
C2_AggregateExitCodeIsProblemCount ==
    (Returned /\ args_all) =>
        /\ Len(outcomes) = 1
        /\ exit_code[1] =
              IF ~outcomes[1].success
              THEN Len(OfKind(outcomes[1].added, {"problem"}))
              ELSE Len(OfKind(outcomes[1].added, {"stale", "nocheck"}))
                   + Len(OfKind(outcomes[1].added, {"pyqt"}))

\* C2's case: a solution with a stale package and a pyqt package.
C2_Witness ==
    /\ Returned /\ args_all
    /\ outcomes[1].success
    /\ OfKind(outcomes[1].added, {"stale"}) # <<>>
    /\ OfKind(outcomes[1].added, {"pyqt"}) # <<>>

\* C3: in both modes, when every solve succeeds and no package of a solution
\* gives a message, main returns 0.
C3_NoFailureExitsZero ==
    (Returned /\ FailedTasks = {}) => exit_code[1] = 0

\* C3's case: a per-task run of three tasks, none of which failed.
C3_Witness ==
    /\ Returned /\ ~args_all
    /\ Len(outcomes) = 3
    /\ FailedTasks = {}

\* The requests of the log that failed.
FailedRequests == { n \in 1..Len(log) : log[n].op = "GET" /\ ~log[n].ok }

\* C4: a failed HTTP request of any of the three lookups raises and ends the
\* run.
C4_FailedRequestIsFatal ==
    FailedRequests # {} => (pc = "raised" /\ raised = Some("HTTPError"))

\* C4, amended: a failed request for napari's latest version or for the
\* plugin mapping raises and ends the run there, with no task solved and no
\* exit code; a failed request for a plugin's latest version does not raise:
\* the lookup returns None.
C4_FailedNapariOrHubRequestIsFatal ==
    \A n \in FailedRequests :
        IF log[n].what \in {"napari", "hub"}
        THEN /\ pc = "raised" /\ raised = Some("HTTPError")
             /\ n = Len(log)
             /\ Runs = <<>>
             /\ exit_code = None /\ exit_status = None
        ELSE /\ raised # Some("HTTPError")
             /\ version_cache[log[n].name] = None

\* C4's case: the request for the plugin mapping failed.
C4_Witness ==
    /\ \E n \in FailedRequests : log[n].what = "hub"
    /\ pc = "raised"

\* C5: solver output that is no JSON ends the run at that task, with no later
\* task solved, no report and no exit code; a solve that answers with its
\* problems does not end the run and adds just these to the task's failures.
C5_MalformedOutputIsFatal ==
    /\ [](\A n \in 1..Len(log) :
            (log[n].op = "run" /\ ~log[n].ok) =>
                /\ pc = "raised" /\ raised = Some("JSONDecodeError")
                /\ n = Len(log)
                /\ Len(Runs) = i /\ Len(outcomes) = i - 1
                /\ ~printed /\ exit_code = None /\ exit_status = None)
    /\ [][(pc = "interpret" /\ ~result[1].success) =>
            /\ pc' = "solve" /\ raised' = None
            /\ tasks[i] \in DOMAIN failures'
            /\ failures'[tasks[i]] = FailuresOf(failures, tasks[i]) \o result[1].solver_problems
            /\ \A t \in DOMAIN failures' \ {tasks[i]} :
                  t \in DOMAIN failures /\ failures'[t] = failures[t]]_vars

\* C5's case: the first task's solve answered with a problem and the second
\* task's output was no JSON.
C5_Witness ==
    /\ raised = Some("JSONDecodeError")
    /\ i = 2
    /\ ~outcomes[1].success /\ outcomes[1].added # <<>>

\* The requests that build the task list: napari's latest version, the plugin
\* mapping and, in per-task mode, the latest version of each plugin that has
\* a conda name.
NeededRequests ==
    {Get("napari", napari, TRUE), Get("hub", <<>>, TRUE)}
    \cup (IF args_all THEN {}
          ELSE { Get("plugin", plugin_names[n][1], version_cache[plugin_names[n][1]] # None) :
                   n \in { m \in 1..Len(plugin_names) : plugin_names[m][2] # None } })

\* C6: the solver runs once for each task, in the task list's order, and the
\* requests that build the task list are answered before its first run.
C6_OneSolverRunPerTaskInOrder ==
    /\ \A n \in 1..Len(Runs) :
          /\ n <= Len(tasks)
          /\ Runs[n].args = SelectSeq(tasks[n], LAMBDA arg : Len(arg) > 0)
    /\ pc = "solve" => Len(Runs) = i - 1
    /\ pc = "interpret" => Len(Runs) = i
    /\ Returned => Len(Runs) = Len(tasks)
    /\ \A n \in 1..Len(log) :
          log[n].op = "run" =>
              \A request \in NeededRequests : \E m \in 1..(n - 1) : log[m] = request

\* C6's case: a per-task run of three tasks has returned.
C6_Witness ==
    /\ Returned /\ ~args_all
    /\ Len(tasks) = 3
    /\ Len(Runs) = 3

\* The conda package names of the hub's plugins.
HubPackageNames ==
    { SplitSlash(plugin_names[n][2][1])[2] :
        n \in { m \in 1..Len(plugin_names) : plugin_names[m][2] # None } }

\* A failure about the package is among the messages.
HasFailure(messages, pkg, kinds) ==
    \E n \in 1..Len(messages) :
        /\ messages[n].kind \in kinds
        /\ messages[n].name = pkg.name
        /\ messages[n].version = pkg.version

\* C7: in aggregate mode every package of a solution that is napari or the
\* conda package of a hub plugin gets a failure exactly when its version is
\* lower than the latest one, or the latest one cannot be obtained, whatever
\* the letter case of the conda package name.
C7_HubPackagesCheckedAgainstLatest ==
    [][(pc = "interpret" /\ args_all /\ result[1].success) =>
         \A n \in 1..Len(result[1].LINK) :
            LET pkg == result[1].LINK[n]
                latest == IF pkg.name = napari THEN napari_latest
                          ELSE IF pkg.name \in DOMAIN version_cache'
                               THEN version_cache'[pkg.name]
                               ELSE None
            IN  pkg.name \in {napari} \cup HubPackageNames =>
                  (HasFailure(FailuresOf(failures', tasks[i]), pkg, {"stale", "nocheck"})
                   <=> (latest = None
                        \/ VersionOrder(pkg.version) < VersionOrder(latest[1])))]_vars

\* The lower-cased name of the package starts with pyqt and is not pyqtgraph.
NamedPyQt(pkg) ==
    /\ Len(pkg.name) >= 4
    /\ \A n \in 1..4 : LowerChar(pkg.name[n]) = pyqt[n]
    /\ Lower(pkg.name) # pyqtgraph

\* C8: in either mode every package of a solution whose lower-cased name
\* starts with pyqt and is not pyqtgraph adds a "solution has" failure to the
\* task, and pyqtgraph never does.
C8_EveryPyQtPackageFlagged ==
    [][(pc = "interpret" /\ result[1].success) =>
         \A n \in 1..Len(result[1].LINK) :
            LET pkg == result[1].LINK[n]
            IN  HasFailure(FailuresOf(failures', tasks[i]), pkg, {"pyqt"}) <=> NamedPyQt(pkg)]_vars

\* The part of C8 that holds: the same of every package that, in aggregate
\* mode, is not among the names to check (napari and the hub plugins' conda
\* packages); those get the latest-version check and no "solution has" failure.
PyQtFlaggedUnlessChecked ==
    [][(pc = "interpret" /\ result[1].success) =>
         \A n \in 1..Len(result[1].LINK) :
            LET pkg == result[1].LINK[n]
            IN  HasFailure(FailuresOf(failures', tasks[i]), pkg, {"pyqt"})
                <=> (NamedPyQt(pkg) /\ ~(args_all /\ Lower(pkg.name) \in names_to_check))]_vars

\* The hub's plugins that have a conda name, in the mapping's order.
Listed == SelectSeq(plugin_names, LAMBDA e : e[2] # None)

\* channel::name of a plugin, with ==<latest version> when it is pinned and
\* the lookup of its PyPI name returned a version.
ExpectedSpec(e, pinned) ==
    LET parts == SplitSlash(e[2][1])
    IN  parts[1] \o <<":", ":">> \o parts[2]
        \o (IF pinned /\ version_cache[e[1]] # None
            THEN <<"=", "=">> \o version_cache[e[1]][1]
            ELSE <<>>)

ExpectedNapariSpec ==
    <<"n", "a", "p", "a", "r", "i", "=">> \o napari_latest[1]
    \o <<"=", "*", "p", "y", "s", "i", "d", "e", "*">>

\* C9: in per-task mode the task list is the task of python and napari alone
\* (the solver gets no empty argument) and then one task for each hub plugin
\* with a conda name, in the mapping's order, as channel::name pinned to the
\* latest version when the lookup returned one; in aggregate mode it is the
\* one task of python, napari and all these plugins, unpinned.
C9_TaskList ==
    pc \in {"solve", "interpret", "returned", "exited"} =>
        /\ IF args_all
           THEN tasks = << <<python_spec, ExpectedNapariSpec>>
                           \o [n \in 1..Len(Listed) |-> ExpectedSpec(Listed[n], FALSE)] >>
           ELSE /\ Len(tasks) = Len(Listed) + 1
                /\ tasks[1] = <<python_spec, ExpectedNapariSpec, <<>>>>
                /\ \A n \in 1..Len(Listed) :
                      tasks[n + 1] = <<python_spec, ExpectedNapariSpec,
                                       ExpectedSpec(Listed[n], TRUE)>>
        /\ \A n \in 1..Len(Runs) : \A m \in 1..Len(Runs[n].args) : Runs[n].args[m] # <<>>
        /\ (~args_all /\ Runs # <<>>) => Runs[1].args = <<python_spec, ExpectedNapariSpec>>

\* C9's case: a per-task run whose hub lists a plugin with no conda name and
\* a plugin whose lookup returned a version, with the first task solved.
C9_Witness ==
    /\ ~args_all
    /\ pc = "solve" /\ i = 2
    /\ Len(plugin_names) = 2 /\ Len(Listed) = 1
    /\ version_cache[Listed[1][1]] # None

\* A failure is recorded for some task.
SomeFailure == \E t \in DOMAIN failures : failures[t] # <<>>

\* C10: when a failure is recorded for a task, the status the process ends
\* with is not 0.
C10_FailuresGiveNonzeroStatus ==
    (exit_status # None /\ SomeFailure) => exit_status[1] # 0

=============================================================================
